---------------------------- MODULE Spec2Model ----------------------------
(***************************************************************************)
(* Model of mir_eval/pattern.py: the pattern-discovery metrics.            *)
(*                                                                         *)
(* A pattern collection is a sequence of patterns, a pattern a sequence of *)
(* occurrences, an occurrence a sequence of events, an event a sequence of *)
(* numbers (two of them when well formed: onset, midi).                    *)
(*                                                                         *)
(* Scores are exact rationals <<numerator, denominator>> in lowest terms   *)
(* (the code computes them in IEEE doubles; rounding is not modelled).     *)
(* Coordinates and the tolerance of standard_FPR are integers counted in   *)
(* one common unit, so that |x| < tol is the code's comparison.            *)
(*                                                                         *)
(* A call's outcome is a record: [status |-> "ok", kind, value] for a      *)
(* returned value, [status |-> "raise", kind |-> exception, value |-> {}]  *)
(* for a raised exception.                                                 *)
(***************************************************************************)
EXTENDS Integers, Sequences, FiniteSets, TLC

VARIABLES reference, estimated, call, args, ret, warned

vars == <<reference, estimated, call, args, ret, warned>>

---------------------------------------------------------------------------
(* Bounds of the checked input sets.                                       *)

\* Patterns per collection (Spec, SpecEval).
MaxPatterns == 2
\* Events per prototype (SpecStd).
MaxProtoLen == 3
\* Events per occurrence and occurrences per pattern (SpecScore).
MaxOccLen == 2
MaxOccs == 1
\* Patterns per collection (SpecValidate).
MaxValPatterns == 2

---------------------------------------------------------------------------
(* Rational arithmetic standing for the code's float arithmetic.           *)

RECURSIVE GCD(_, _)
GCD(a, b) == IF b = 0 THEN a ELSE GCD(b, a % b)

\* n / d for naturals n, d with d > 0.
Rat(n, d) == LET g == GCD(n, d) IN <<n \div g, d \div g>>

Zero == <<0, 1>>
One == <<1, 1>>

RAdd(x, y) == Rat(x[1] * y[2] + y[1] * x[2], x[2] * y[2])
RMul(x, y) == Rat(x[1] * y[1], x[2] * y[2])
\* x / y for y # 0.
RDiv(x, y) == Rat(x[1] * y[2], x[2] * y[1])
RLeq(x, y) == x[1] * y[2] <= y[1] * x[2]
RLess(x, y) == x[1] * y[2] < y[1] * x[2]

Range(s) == {s[i] : i \in DOMAIN s}

\* An array whose entries are stored once computed (equal to f itself).
Array(f) == <<>> @@ f

RECURSIVE SumSeq(_)
SumSeq(s) == IF s = <<>> THEN Zero ELSE RAdd(Head(s), SumSeq(Tail(s)))

\* np.mean of a non-empty vector.
Mean(s) == RDiv(SumSeq(s), <<Len(s), 1>>)

\* np.max of a non-empty vector.
MaxOf(s) == CHOOSE x \in Range(s) : \A y \in Range(s) : RLeq(y, x)

\* A matrix is a non-empty sequence of non-empty rows of equal length.
\* np.max(m, axis=0): the maximum of every column.
ColMax(m) == Array([j \in 1..Len(m[1]) |-> MaxOf(Array([i \in 1..Len(m) |-> m[i][j]]))])
\* np.max(m, axis=1): the maximum of every row.
RowMax(m) == Array([i \in 1..Len(m) |-> MaxOf(m[i])])
\* np.max(m): the maximum entry.
MatMax(m) == MaxOf(RowMax(m))

---------------------------------------------------------------------------
(* Outcomes.                                                               *)

Ok(kind, v) == [status |-> "ok", kind |-> kind, value |-> v]
Raise(exc) == [status |-> "raise", kind |-> exc, value |-> {}]
NoRet == [status |-> "none", kind |-> "none", value |-> {}]

Triple(f, p, r) == Ok("tuple", <<f, p, r>>)
ZeroTriple == Triple(Zero, Zero, Zero)
Float(x) == Ok("float", x)

IsTriple(r) == r.status = "ok" /\ r.kind = "tuple"
IsFloat(r) == r.status = "ok" /\ r.kind = "float"
Raised(r, exc) == r.status = "raise" /\ r.kind = exc

\* util.f_measure (beta = 1): the harmonic mean, 0 when both are 0.
f_measure(precision, recall) ==
    IF precision = Zero /\ recall = Zero
    THEN Zero
    ELSE RDiv(RMul(<<2, 1>>, RMul(precision, recall)), RAdd(precision, recall))

---------------------------------------------------------------------------
(* _n_onset_midi, validate.                                                *)

RECURSIVE SumLen(_)
SumLen(s) == IF s = <<>> THEN 0 ELSE Len(Head(s)) + SumLen(Tail(s))

\* Faulty variant of n_onset_midi: counts the patterns, not their events.
n_onset_midi_counts_patterns(patterns) == Len(patterns)

RECURSIVE n_onset_midi(_)
n_onset_midi(patterns) ==
    IF patterns = <<>> THEN 0
    ELSE SumLen(Head(patterns)) + n_onset_midi(Tail(patterns))

\* The warnings validate emits (before its structural checks).
validate_warnings(reference_patterns, estimated_patterns) ==
    (IF n_onset_midi(reference_patterns) = 0
     THEN {"Reference patterns are empty."} ELSE {})
    \cup
    (IF n_onset_midi(estimated_patterns) = 0
     THEN {"Estimated patterns are empty."} ELSE {})

\* Faulty variant of patterns_ok: only an event of fewer than two components fails.
patterns_ok_short_events(patterns) ==
    \A p \in DOMAIN patterns :
        /\ ~(Len(patterns[p]) <= 0)
        /\ \A o \in DOMAIN patterns[p] :
               \A e \in DOMAIN patterns[p][o] :
                   ~(Len(patterns[p][o][e]) < 2)

\* One collection passes the loop body of validate.
patterns_ok(patterns) ==
    \A p \in DOMAIN patterns :
        /\ ~(Len(patterns[p]) <= 0)
        /\ \A o \in DOMAIN patterns[p] :
               \A e \in DOMAIN patterns[p][o] :
                   ~(Len(patterns[p][o][e]) # 2)

\* validate raises ValueError, or returns None.
validate(reference_patterns, estimated_patterns) ==
    IF patterns_ok(reference_patterns) /\ patterns_ok(estimated_patterns)
    THEN Ok("None", {})
    ELSE Raise("ValueError")

\* The guard shared by the metrics: "If no patterns were provided".
no_onsets(reference_patterns, estimated_patterns) ==
    n_onset_midi(reference_patterns) = 0 \/ n_onset_midi(estimated_patterns) = 0

---------------------------------------------------------------------------
(* _occurrence_intersection, _compute_score_matrix.                        *)

occurrence_intersection(occ_P, occ_Q) ==
    LET set_P == {occ_P[i] : i \in DOMAIN occ_P}
        set_Q == {occ_Q[i] : i \in DOMAIN occ_Q}
    IN  set_P \cap set_Q

IntMax(a, b) == IF a >= b THEN a ELSE b

\* Faulty variant of score_entry: divides by the sum of the two lengths.
score_entry_sum(occ_P, occ_Q) ==
    LET denom == Len(occ_P) + Len(occ_Q)
    IN  Rat(Cardinality(occurrence_intersection(occ_P, occ_Q)), denom)

\* One entry under "cardinality_score"; the division needs denom # 0.
score_entry(occ_P, occ_Q) ==
    LET denom == IntMax(Len(occ_P), Len(occ_Q))
    IN  Rat(Cardinality(occurrence_intersection(occ_P, occ_Q)), denom)

\* Faulty variant of compute_score_matrix: the else branch that raises is missing,
\* so an unknown similarity_metric leaves the matrix of zeros.
compute_score_matrix_no_else(P, Q, similarity_metric) ==
    IF Len(P) = 0 \/ Len(Q) = 0 THEN Ok("matrix", <<>>)
    ELSE IF similarity_metric # "cardinality_score"
    THEN Ok("matrix", Array([iP \in DOMAIN P |-> Array([iQ \in DOMAIN Q |-> Zero])]))
    ELSE IF \E iP \in DOMAIN P, iQ \in DOMAIN Q :
                IntMax(Len(P[iP]), Len(Q[iQ])) = 0
    THEN Raise("ZeroDivisionError")
    ELSE Ok("matrix",
            Array([iP \in DOMAIN P |->
                Array([iQ \in DOMAIN Q |-> score_entry(P[iP], Q[iQ])])]))

\* sm, for patterns P and Q with at least one occurrence each.
\* The first entry decides an unknown similarity_metric; with the known one
\* an entry whose two occurrences are both empty divides by zero.
compute_score_matrix(P, Q, similarity_metric) ==
    IF Len(P) = 0 \/ Len(Q) = 0 THEN Ok("matrix", <<>>)
    ELSE IF similarity_metric # "cardinality_score" THEN Raise("ValueError")
    ELSE IF \E iP \in DOMAIN P, iQ \in DOMAIN Q :
                IntMax(Len(P[iP]), Len(Q[iQ])) = 0
    THEN Raise("ZeroDivisionError")
    ELSE Ok("matrix",
            Array([iP \in DOMAIN P |->
                Array([iQ \in DOMAIN Q |-> score_entry(P[iP], Q[iQ])])]))

---------------------------------------------------------------------------
(* standard_FPR.                                                           *)

\* Tolerance default of standard_FPR: 1e-5, one unit of the coordinates.
DefaultTol == 1

Abs(x) == IF x < 0 THEN -x ELSE x

\* P - Q of two (n, 2) coordinate arrays of equal length.
array_sub(P, Q) ==
    Array([i \in 1..Len(P) |-> <<P[i][1] - Q[i][1], P[i][2] - Q[i][2]>>])

\* np.diff(D, axis=0): each row minus the row before it.
np_diff(D) ==
    Array([i \in 1..(Len(D) - 1) |->
              <<D[i + 1][1] - D[i][1], D[i + 1][2] - D[i][2]>>])

\* np.max(np.abs(D)) of a non-empty array.
max_abs(D) ==
    LET vals == {Abs(D[i][c]) : i \in DOMAIN D, c \in 1..2}
    IN  CHOOSE m \in vals : \A v \in vals : v <= m

\* Faulty variant of prototype_test: the tolerance is inclusive (<= tol).
prototype_test_inclusive(P, Q, tol) ==
    IF Len(P) # Len(Q) THEN "continue"
    ELSE IF Len(P) = 1 THEN "match"
    ELSE IF Len(P) = 0 THEN "raise"
    ELSE IF max_abs(np_diff(array_sub(P, Q))) <= tol THEN "match"
    ELSE "nomatch"

\* Faulty variant of prototype_test: a prototype of length 1 matches before the
\* lengths are compared.
prototype_test_length_one_first(P, Q, tol) ==
    IF Len(P) = 1 \/ Len(Q) = 1 THEN "match"
    ELSE IF Len(P) # Len(Q) THEN "continue"
    ELSE IF Len(P) = 0 THEN "raise"
    ELSE IF max_abs(np_diff(array_sub(P, Q))) < tol THEN "match"
    ELSE "nomatch"

\* The body of the inner loop of standard_FPR for prototypes P and Q:
\* "continue" (lengths differ), "match" (k += 1; break), "nomatch", or
\* "raise" (np.max of an empty array, when both prototypes are empty).
prototype_test(P, Q, tol) ==
    IF Len(P) # Len(Q) THEN "continue"
    ELSE IF Len(P) = 1 THEN "match"
    ELSE IF Len(P) = 0 THEN "raise"
    ELSE IF max_abs(np_diff(array_sub(P, Q))) < tol THEN "match"
    ELSE "nomatch"

\* The inner loop from estimated pattern j on: "match", "raise" or "none".
RECURSIVE scan_estimated(_, _, _, _)
scan_estimated(P, estimated_patterns, j, tol) ==
    IF j > Len(estimated_patterns) THEN "none"
    ELSE LET t == prototype_test(P, estimated_patterns[j][1], tol)
         IN  IF t \in {"match", "raise"} THEN t
             ELSE scan_estimated(P, estimated_patterns, j + 1, tol)

standard_FPR(reference_patterns, estimated_patterns, tol) ==
    IF validate(reference_patterns, estimated_patterns).status = "raise"
    THEN validate(reference_patterns, estimated_patterns)
    ELSE IF no_onsets(reference_patterns, estimated_patterns) THEN ZeroTriple
    ELSE
    LET nP == Len(reference_patterns)
        nQ == Len(estimated_patterns)
        found == Array([i \in 1..nP |->
                    scan_estimated(reference_patterns[i][1], estimated_patterns, 1, tol)])
        k == Cardinality({i \in 1..nP : found[i] = "match"})
        precision == Rat(k, nQ)
        recall == Rat(k, nP)
    IN  IF \E i \in 1..nP : found[i] = "raise" THEN Raise("ValueError")
        ELSE Triple(f_measure(precision, recall), precision, recall)

---------------------------------------------------------------------------
(* establishment_FPR.                                                      *)

DefaultMetric == "cardinality_score"

\* The score matrices of all pattern pairs, as the double loop builds them.
pair_matrices(reference_patterns, estimated_patterns, similarity_metric) ==
    Array([iP \in DOMAIN reference_patterns |->
        Array([iQ \in DOMAIN estimated_patterns |->
            compute_score_matrix(reference_patterns[iP], estimated_patterns[iQ],
                                 similarity_metric)])])

\* Row-major order of the double loop over (iP, iQ).
loop_pairs(nP, nQ) ==
    Array([k \in 1..(nP * nQ) |-> <<((k - 1) \div nQ) + 1, ((k - 1) % nQ) + 1>>])

\* The first exception the double loop meets, if any.
first_raise(ms, nP, nQ) ==
    LET bad == SelectSeq(loop_pairs(nP, nQ),
                         LAMBDA pr : ms[pr[1]][pr[2]].status = "raise")
    IN  IF bad = <<>> THEN NoRet ELSE ms[bad[1][1]][bad[1][2]]

\* Faulty variant of establishment_FPR: the precision is computed by rows,
\* as the recall is.
establishment_FPR_by_rows(reference_patterns, estimated_patterns, similarity_metric) ==
    IF validate(reference_patterns, estimated_patterns).status = "raise"
    THEN validate(reference_patterns, estimated_patterns)
    ELSE IF no_onsets(reference_patterns, estimated_patterns) THEN ZeroTriple
    ELSE
    LET nP == Len(reference_patterns)
        nQ == Len(estimated_patterns)
        ms == pair_matrices(reference_patterns, estimated_patterns, similarity_metric)
        S == Array([iP \in 1..nP |->
                 Array([iQ \in 1..nQ |-> MatMax(ms[iP][iQ].value)])])
        precision == Mean(RowMax(S))
        recall == Mean(RowMax(S))
    IN  IF first_raise(ms, nP, nQ).status = "raise" THEN first_raise(ms, nP, nQ)
        ELSE Triple(f_measure(precision, recall), precision, recall)

establishment_FPR(reference_patterns, estimated_patterns, similarity_metric) ==
    IF validate(reference_patterns, estimated_patterns).status = "raise"
    THEN validate(reference_patterns, estimated_patterns)
    ELSE IF no_onsets(reference_patterns, estimated_patterns) THEN ZeroTriple
    ELSE
    LET nP == Len(reference_patterns)
        nQ == Len(estimated_patterns)
        ms == pair_matrices(reference_patterns, estimated_patterns, similarity_metric)
        S == Array([iP \in 1..nP |->
                 Array([iQ \in 1..nQ |-> MatMax(ms[iP][iQ].value)])])
        precision == Mean(ColMax(S))
        recall == Mean(RowMax(S))
    IN  IF first_raise(ms, nP, nQ).status = "raise" THEN first_raise(ms, nP, nQ)
        ELSE Triple(f_measure(precision, recall), precision, recall)

---------------------------------------------------------------------------
(* occurrence_FPR.                                                         *)

DefaultThres == <<3, 4>>

\* rel_idx: the (iP, iQ) pairs whose score matrix reaches thres, in loop order.
rel_idx(ms, nP, nQ, thres) ==
    SelectSeq(loop_pairs(nP, nQ),
              LAMBDA pr : RLeq(thres, MatMax(ms[pr[1]][pr[2]].value)))

\* O_PR[:, :, 0] and O_PR[:, :, 1]: zero except at the pairs of rel_idx.
O_PR(ms, nP, nQ, thres, layer) ==
    Array([iP \in 1..nP |-> Array([iQ \in 1..nQ |->
        IF RLeq(thres, MatMax(ms[iP][iQ].value))
        THEN IF layer = 0 THEN Mean(ColMax(ms[iP][iQ].value))
                          ELSE Mean(RowMax(ms[iP][iQ].value))
        ELSE Zero])])

\* The elements of a finite set of integers, ascending.
SortedSeq(S) ==
    Array([k \in 1..Cardinality(S) |->
              CHOOSE x \in S : Cardinality({y \in S : y < x}) = k - 1])

\* Faulty variant of ix_select: each row and column index of rel_idx is taken once.
ix_select_unique(M, rel) ==
    LET rows == SortedSeq({rel[a][1] : a \in DOMAIN rel})
        cols == SortedSeq({rel[b][2] : b \in DOMAIN rel})
    IN  Array([a \in DOMAIN rows |->
            Array([b \in DOMAIN cols |-> M[rows[a]][cols[b]]])])

\* M[np.ix_(rel_idx[:, 0], rel_idx[:, 1])]: one row per entry of rel_idx,
\* one column per entry of rel_idx.
ix_select(M, rel) ==
    Array([a \in 1..Len(rel) |->
        Array([b \in 1..Len(rel) |-> M[rel[a][1]][rel[b][2]]])])

occurrence_FPR(reference_patterns, estimated_patterns, thres, similarity_metric) ==
    IF validate(reference_patterns, estimated_patterns).status = "raise"
    THEN validate(reference_patterns, estimated_patterns)
    ELSE IF no_onsets(reference_patterns, estimated_patterns) THEN ZeroTriple
    ELSE
    LET nP == Len(reference_patterns)
        nQ == Len(estimated_patterns)
        ms == pair_matrices(reference_patterns, estimated_patterns, similarity_metric)
        rel == rel_idx(ms, nP, nQ, thres)
        precision == IF Len(rel) = 0 THEN Zero
                     ELSE Mean(ColMax(ix_select(O_PR(ms, nP, nQ, thres, 0), rel)))
        recall == IF Len(rel) = 0 THEN Zero
                  ELSE Mean(RowMax(ix_select(O_PR(ms, nP, nQ, thres, 1), rel)))
    IN  IF first_raise(ms, nP, nQ).status = "raise" THEN first_raise(ms, nP, nQ)
        ELSE Triple(f_measure(precision, recall), precision, recall)

---------------------------------------------------------------------------
(* three_layer_FPR.                                                        *)

\* Faulty variant of first_layer_F: the precision, not the F-measure.
first_layer_precision(ref_occs, est_occs) ==
    Rat(Cardinality(occurrence_intersection(ref_occs, est_occs)), Len(ref_occs))

\* compute_first_layer_PR, reduced by compute_layer to its F-measure;
\* needs both occurrences non-empty (each is a divisor).
first_layer_F(ref_occs, est_occs) ==
    LET s == Cardinality(occurrence_intersection(ref_occs, est_occs))
        precision == Rat(s, Len(ref_occs))
        recall == Rat(s, Len(est_occs))
    IN  f_measure(precision, recall)

\* compute_layer(ref_pattern, est_pattern): the matrix F_1.
compute_layer_1(ref_pattern, est_pattern) ==
    Array([iP \in DOMAIN ref_pattern |-> Array([iQ \in DOMAIN est_pattern |->
        first_layer_F(ref_pattern[iP], est_pattern[iQ])])])

\* compute_second_layer_PR, reduced by compute_layer to its F-measure.
second_layer_F(ref_pattern, est_pattern) ==
    LET F_1 == compute_layer_1(ref_pattern, est_pattern)
        precision == Mean(ColMax(F_1))
        recall == Mean(RowMax(F_1))
    IN  f_measure(precision, recall)

\* compute_layer(reference_patterns, estimated_patterns, layer=2): F_2.
compute_layer_2(reference_patterns, estimated_patterns) ==
    Array([iP \in DOMAIN reference_patterns |->
        Array([iQ \in DOMAIN estimated_patterns |->
            second_layer_F(reference_patterns[iP], estimated_patterns[iQ])])])

\* Some first-layer division is by zero: an empty occurrence on either side.
layer_divides_by_zero(reference_patterns, estimated_patterns) ==
    \E iP \in DOMAIN reference_patterns, iQ \in DOMAIN estimated_patterns :
        \/ \E o \in DOMAIN reference_patterns[iP] : Len(reference_patterns[iP][o]) = 0
        \/ \E o \in DOMAIN estimated_patterns[iQ] : Len(estimated_patterns[iQ][o]) = 0

three_layer_FPR(reference_patterns, estimated_patterns) ==
    IF validate(reference_patterns, estimated_patterns).status = "raise"
    THEN validate(reference_patterns, estimated_patterns)
    ELSE IF no_onsets(reference_patterns, estimated_patterns) THEN ZeroTriple
    ELSE IF layer_divides_by_zero(reference_patterns, estimated_patterns)
    THEN Raise("ZeroDivisionError")
    ELSE
    LET F_2 == compute_layer_2(reference_patterns, estimated_patterns)
        precision_3 == Mean(ColMax(F_2))
        recall_3 == Mean(RowMax(F_2))
    IN  Triple(f_measure(precision_3, recall_3), precision_3, recall_3)

---------------------------------------------------------------------------
(* first_n_three_layer_P, first_n_target_proportion_R.                     *)

DefaultN == 5

IntMin(a, b) == IF a <= b THEN a ELSE b

\* estimated_patterns[: min(len(estimated_patterns), n)], for n >= 0.
first_n(estimated_patterns, n) ==
    SubSeq(estimated_patterns, 1, IntMin(Len(estimated_patterns), n))

first_n_three_layer_P(reference_patterns, estimated_patterns, n) ==
    IF validate(reference_patterns, estimated_patterns).status = "raise"
    THEN validate(reference_patterns, estimated_patterns)
    ELSE IF no_onsets(reference_patterns, estimated_patterns) THEN ZeroTriple
    ELSE
    LET r == three_layer_FPR(reference_patterns, first_n(estimated_patterns, n))
    IN  IF r.status = "raise" THEN r ELSE Float(r.value[2])

first_n_target_proportion_R(reference_patterns, estimated_patterns, n) ==
    IF validate(reference_patterns, estimated_patterns).status = "raise"
    THEN validate(reference_patterns, estimated_patterns)
    ELSE IF no_onsets(reference_patterns, estimated_patterns) THEN ZeroTriple
    ELSE
    LET r == establishment_FPR(reference_patterns, first_n(estimated_patterns, n),
                               DefaultMetric)
    IN  IF r.status = "raise" THEN r ELSE Float(r.value[3])

\* What the nested metric call of a first_n_* function adds to the warnings.
first_n_warnings(reference_patterns, estimated_patterns, n) ==
    validate_warnings(reference_patterns, estimated_patterns)
    \cup
    (IF validate(reference_patterns, estimated_patterns).status = "ok"
        /\ ~no_onsets(reference_patterns, estimated_patterns)
     THEN validate_warnings(reference_patterns, first_n(estimated_patterns, n))
     ELSE {})

---------------------------------------------------------------------------
(* util.filter_kwargs and evaluate.                                        *)

\* The keyword parameters each metric's signature declares.
SigStandard == {"tol"}
SigEstablishment == {"similarity_metric"}
SigOccurrence == {"thres", "similarity_metric"}
SigThreeLayer == {}
SigFirstN == {"n"}

NoKwargs == [k \in {} |-> 0]

\* util.filter_kwargs: only the keys the function's signature accepts.
filter_kwargs(sig, kwargs) == [k \in (DOMAIN kwargs) \cap sig |-> kwargs[k]]

\* A keyword argument, or the parameter's default.
kwarg(kw, key, default) == IF key \in DOMAIN kw THEN kw[key] ELSE default

\* kwargs[key] = v
set_kwarg(kwargs, key, v) == (key :> v) @@ kwargs

call_standard(ref, est, kwargs) ==
    LET kw == filter_kwargs(SigStandard, kwargs)
    IN  standard_FPR(ref, est, kwarg(kw, "tol", DefaultTol))

call_establishment(ref, est, kwargs) ==
    LET kw == filter_kwargs(SigEstablishment, kwargs)
    IN  establishment_FPR(ref, est, kwarg(kw, "similarity_metric", DefaultMetric))

call_occurrence(ref, est, kwargs) ==
    LET kw == filter_kwargs(SigOccurrence, kwargs)
    IN  occurrence_FPR(ref, est, kwarg(kw, "thres", DefaultThres),
                       kwarg(kw, "similarity_metric", DefaultMetric))

call_three_layer(ref, est, kwargs) == three_layer_FPR(ref, est)

call_first_n_P(ref, est, kwargs) ==
    LET kw == filter_kwargs(SigFirstN, kwargs)
    IN  first_n_three_layer_P(ref, est, kwarg(kw, "n", DefaultN))

call_first_n_R(ref, est, kwargs) ==
    LET kw == filter_kwargs(SigFirstN, kwargs)
    IN  first_n_target_proportion_R(ref, est, kwarg(kw, "n", DefaultN))

\* kwargs as evaluate has changed them when it reaches each call.
kwargs_occ5(kwargs) == set_kwarg(kwargs, "thresh", <<1, 2>>)
kwargs_occ75(kwargs) == set_kwarg(kwargs_occ5(kwargs), "thresh", <<3, 4>>)
kwargs_first_n(kwargs) ==
    IF "n" \notin DOMAIN kwargs_occ75(kwargs)
    THEN set_kwarg(kwargs_occ75(kwargs), "n", DefaultN)
    ELSE kwargs_occ75(kwargs)

\* The seven metric calls of evaluate, in order.
evaluate_calls(ref, est, kwargs) ==
    << call_standard(ref, est, kwargs),
       call_establishment(ref, est, kwargs),
       call_occurrence(ref, est, kwargs_occ5(kwargs)),
       call_occurrence(ref, est, kwargs_occ75(kwargs)),
       call_three_layer(ref, est, kwargs_occ75(kwargs)),
       call_first_n_P(ref, est, kwargs_first_n(kwargs)),
       call_first_n_R(ref, est, kwargs_first_n(kwargs)) >>

\* scores[F], scores[P], scores[R] = <a returned triple>
unpack(keys, r) ==
    Array([i \in 1..3 |-> [key |-> keys[i], val |-> Float(r.value[i])]])

\* The ordered mapping evaluate builds from the outcomes c of its seven
\* calls: a sequence of [key, val]; or the first exception one of them raises.
scores_of(c) ==
    IF \E i \in 1..7 : c[i].status = "raise"
    THEN c[CHOOSE i \in 1..7 : /\ c[i].status = "raise"
                               /\ \A j \in 1..(i - 1) : c[j].status # "raise"]
    ELSE Ok("scores",
            unpack(<<"F", "P", "R">>, c[1])
            \o unpack(<<"F_est", "P_est", "R_est">>, c[2])
            \o unpack(<<"F_occ.5", "P_occ.5", "R_occ.5">>, c[3])
            \o unpack(<<"F_occ.75", "P_occ.75", "R_occ.75">>, c[4])
            \o unpack(<<"F_3", "P_3", "R_3">>, c[5])
            \o << [key |-> "FFP", val |-> c[6]],
                  [key |-> "FFTP_est", val |-> c[7]] >>)

evaluate(ref, est, kwargs) == scores_of(evaluate_calls(ref, est, kwargs))

\* The warnings of all validate calls evaluate reaches.
evaluate_warnings(ref, est, kwargs) ==
    LET c == evaluate_calls(ref, est, kwargs)
    IN  validate_warnings(ref, est)
        \cup
        (IF \A i \in 1..5 : c[i].status = "ok"
         THEN first_n_warnings(ref, est, kwarg(kwargs_first_n(kwargs), "n", DefaultN))
         ELSE {})

---------------------------------------------------------------------------
(* The checked inputs.                                                     *)

\* Two events, as (onset, midi).
EvA == <<0, 0>>
EvB == <<1, 1>>

SeqsUpTo(S, n) == UNION {[1..k -> S] : k \in 0..n}
SeqsFromTo(S, m, n) == UNION {[1..k -> S] : k \in m..n}

\* Well-formed patterns: an empty occurrence, single events, two
\* occurrences, a two-event occurrence.
PatternPool ==
    { << <<>> >>,
      << <<EvA>> >>,
      << <<EvB>> >>,
      << <<EvA>>, <<EvB>> >>,
      << <<EvA, EvB>> >> }

Collections == SeqsUpTo(PatternPool, MaxPatterns)

Thresholds == {<<1, 2>>, <<3, 4>>}
Tols == {DefaultTol, DefaultTol + 1}
Metrics == {"cardinality_score", "normalised_matching_score"}
NChoices == {0, 1, MaxPatterns, DefaultN}

---------------------------------------------------------------------------
(* The calls, as actions: one call on the given collections.               *)

Idle ==
    /\ call = "none"
    /\ args = NoKwargs
    /\ ret = NoRet
    /\ warned = {}

Do(name, a, r, w) ==
    /\ call = "none"
    /\ call' = name
    /\ args' = a
    /\ ret' = r
    /\ warned' = w
    /\ UNCHANGED <<reference, estimated>>

CallValidate ==
    Do("validate", NoKwargs, validate(reference, estimated),
       validate_warnings(reference, estimated))

CallStandard ==
    \E tol \in Tols :
        Do("standard_FPR", [tol |-> tol],
           standard_FPR(reference, estimated, tol),
           validate_warnings(reference, estimated))

CallEstablishment ==
    \E m \in Metrics :
        Do("establishment_FPR", [similarity_metric |-> m],
           establishment_FPR(reference, estimated, m),
           validate_warnings(reference, estimated))

CallOccurrence ==
    \E t \in Thresholds, m \in Metrics :
        Do("occurrence_FPR", [thres |-> t, similarity_metric |-> m],
           occurrence_FPR(reference, estimated, t, m),
           validate_warnings(reference, estimated))

CallThreeLayer ==
    Do("three_layer_FPR", NoKwargs, three_layer_FPR(reference, estimated),
       validate_warnings(reference, estimated))

CallFirstNP ==
    \E n \in NChoices :
        Do("first_n_three_layer_P", [n |-> n],
           first_n_three_layer_P(reference, estimated, n),
           first_n_warnings(reference, estimated, n))

CallFirstNR ==
    \E n \in NChoices :
        Do("first_n_target_proportion_R", [n |-> n],
           first_n_target_proportion_R(reference, estimated, n),
           first_n_warnings(reference, estimated, n))

\* The metrics on every pair of pool collections.
Init ==
    /\ reference \in Collections
    /\ estimated \in Collections
    /\ Idle

Next ==
    \/ CallStandard
    \/ CallEstablishment
    \/ CallOccurrence
    \/ CallThreeLayer
    \/ CallFirstNP
    \/ CallFirstNR

Spec == Init /\ [][Next]_vars

---------------------------------------------------------------------------
(* evaluate on every pair of pool collections, with some keyword bags.     *)

KwargsChoices ==
    << NoKwargs,
       [thres |-> <<1, 2>>],
       [thresh |-> <<1, 4>>],
       [n |-> 1],
       [similarity_metric |-> "normalised_matching_score"],
       [tol |-> 2, verbose |-> 1],
       [thres |-> <<1, 2>>, n |-> 1] >>

CallEvaluate ==
    \E c \in DOMAIN KwargsChoices :
        Do("evaluate", KwargsChoices[c],
           evaluate(reference, estimated, KwargsChoices[c]),
           evaluate_warnings(reference, estimated, KwargsChoices[c]))

NextEval == CallEvaluate

SpecEval == Init /\ [][NextEval]_vars

---------------------------------------------------------------------------
(* standard_FPR on two single-pattern collections: every pair of           *)
(* prototypes of up to MaxProtoLen events.                                 *)

StdEvents == {<<0, 0>>, <<1, 0>>, <<2, 0>>, <<0, 1>>}
Prototypes == SeqsFromTo(StdEvents, 1, MaxProtoLen)

InitStd ==
    /\ \E P \in Prototypes : reference = << <<P>> >>
    /\ \E Q \in Prototypes : estimated = << <<Q>> >>
    /\ Idle

NextStd == CallStandard

SpecStd == InitStd /\ [][NextStd]_vars

---------------------------------------------------------------------------
(* The score matrix of two patterns, and the two metrics built on it, on   *)
(* two single-pattern collections: every pair of patterns of up to MaxOccs *)
(* occurrences of up to MaxOccLen events (events may repeat).              *)

ScoreOccurrences == SeqsUpTo({EvA, EvB}, MaxOccLen)
ScorePatterns == SeqsFromTo(ScoreOccurrences, 1, MaxOccs)

\* s = _compute_score_matrix(ref_pattern, est_pattern, similarity_metric)
CallScoreMatrix ==
    \E iP \in DOMAIN reference, iQ \in DOMAIN estimated, m \in Metrics :
        Do("_compute_score_matrix", [iP |-> iP, iQ |-> iQ, similarity_metric |-> m],
           compute_score_matrix(reference[iP], estimated[iQ], m), {})

InitScore ==
    /\ \E P \in ScorePatterns : reference = <<P>>
    /\ \E Q \in ScorePatterns : estimated = <<Q>>
    /\ Idle

NextScore ==
    \/ CallScoreMatrix
    \/ CallEstablishment
    \/ CallOccurrence

SpecScore == InitScore /\ [][NextScore]_vars

---------------------------------------------------------------------------
(* validate on collections that may be malformed.                          *)

\* No occurrence; an empty occurrence; a well-formed event; events of one
\* and of three components; a malformed event after well-formed ones.
ValPatternPool ==
    { <<>>,
      << <<>> >>,
      << <<EvA>> >>,
      << << <<0>> >> >>,
      << << <<0, 0, 0>> >> >>,
      << <<EvA>>, <<EvB, <<1>> >> >> }

ValCollections == SeqsUpTo(ValPatternPool, MaxValPatterns)

InitValidate ==
    /\ reference \in ValCollections
    /\ estimated \in ValCollections
    /\ Idle

NextValidate == CallValidate \/ CallThreeLayer

SpecValidate == InitValidate /\ [][NextValidate]_vars

---------------------------------------------------------------------------
(* Vocabulary of the properties, stated on the inputs themselves.          *)

\* The collection has zero total events.
HasNoEvents(c) == \A p \in DOMAIN c : \A o \in DOMAIN c[p] : c[p][o] = <<>>

\* The data-model invariants: a pattern has an occurrence, an event has two
\* components.
WellFormed(c) ==
    /\ \A p \in DOMAIN c : c[p] # <<>>
    /\ \A p \in DOMAIN c : \A o \in DOMAIN c[p] : \A e \in DOMAIN c[p][o] :
           DOMAIN c[p][o][e] = {1, 2}

MetricNames ==
    {"standard_FPR", "establishment_FPR", "occurrence_FPR", "three_layer_FPR",
     "first_n_three_layer_P", "first_n_target_proportion_R"}

\* The value the report maps key to.
ScoreOf(scores, key) == scores[CHOOSE i \in DOMAIN scores : scores[i].key = key].val

ReportKeys ==
    << "F", "P", "R", "F_est", "P_est", "R_est", "F_occ.5", "P_occ.5", "R_occ.5",
       "F_occ.75", "P_occ.75", "R_occ.75", "F_3", "P_3", "R_3", "FFP", "FFTP_est" >>

---------------------------------------------------------------------------
(* C1 *)

\* The three occurrence entries of a report under the given key suffix.
OccSlot(scores, F, P, R) ==
    <<ScoreOf(scores, F).value, ScoreOf(scores, P).value, ScoreOf(scores, R).value>>

\* C1: in the report evaluate returns, F_occ.5/P_occ.5/R_occ.5 are
\* occurrence_FPR at threshold 0.5 and F_occ.75/P_occ.75/R_occ.75 are
\* occurrence_FPR at threshold 0.75, whatever threshold the caller's options
\* hold (the other declared option, similarity_metric, is forwarded).
C1_OccurrenceSlotsUseFixedThresholds ==
    (call = "evaluate" /\ ret.status = "ok") =>
        LET m == kwarg(args, "similarity_metric", DefaultMetric)
        IN  /\ OccSlot(ret.value, "F_occ.5", "P_occ.5", "R_occ.5")
                 = occurrence_FPR(reference, estimated, <<1, 2>>, m).value
            /\ OccSlot(ret.value, "F_occ.75", "P_occ.75", "R_occ.75")
                 = occurrence_FPR(reference, estimated, <<3, 4>>, m).value

---------------------------------------------------------------------------
(* C2 *)

---------------------------------------------------------------------------
(* C3 *)

\* C3: for n >= len(estimated), first_n_three_layer_P returns the precision
\* of three_layer_FPR on the same collections (a single score), also when a
\* collection has zero total events.
C3_FirstNEqualsThreeLayerPrecision ==
    (call = "first_n_three_layer_P" /\ args.n >= Len(estimated)) =>
        LET t == three_layer_FPR(reference, estimated)
        IN  IF t.status = "ok"
            THEN IsFloat(ret) /\ ret.value = t.value[2]
            ELSE ret = t

---------------------------------------------------------------------------
(* C4 *)

\* C4: a report evaluate returns has exactly the seventeen keys, in order,
\* and every value is a single score, never a tuple of scores.
C4_ReportOfSingleScores ==
    (call = "evaluate" /\ ret.status = "ok") =>
        /\ [i \in DOMAIN ret.value |-> ret.value[i].key] = ReportKeys
        /\ \A i \in DOMAIN ret.value : IsFloat(ret.value[i].val)

---------------------------------------------------------------------------
(* C5 *)

EventSet(occ) == {occ[i] : i \in DOMAIN occ}

\* Every entry of a returned score matrix satisfies Q(occ_P, occ_Q, entry).
EveryEntry(Q(_, _, _)) ==
    (call = "_compute_score_matrix" /\ ret.status = "ok") =>
        \A iP \in DOMAIN reference[args.iP], iQ \in DOMAIN estimated[args.iQ] :
            Q(reference[args.iP][iP], estimated[args.iQ][iQ], ret.value[iP][iQ])

InUnitInterval(x) == RLeq(Zero, x) /\ RLeq(x, One)

---------------------------------------------------------------------------
(* C6 *)

UsesMetric == call \in {"_compute_score_matrix", "establishment_FPR", "occurrence_FPR"}

\* C6 as stated: with a similarity metric other than "cardinality_score",
\* the score matrix builder, establishment_FPR and occurrence_FPR always
\* fail with an invalid-argument error.
C6_UnknownMetricAlwaysFails ==
    (UsesMetric /\ args.similarity_metric # "cardinality_score")
    => Raised(ret, "ValueError")

\* C6 as amended: they fail with the invalid-argument error, except that
\* establishment_FPR and occurrence_FPR return (0.0, 0.0, 0.0) without
\* looking at the metric when a collection has zero total events.
C6_UnknownMetricFailsUnlessNoEvents ==
    (UsesMetric /\ args.similarity_metric # "cardinality_score")
    => IF call # "_compute_score_matrix"
          /\ (HasNoEvents(reference) \/ HasNoEvents(estimated))
       THEN ret = Triple(Zero, Zero, Zero)
       ELSE Raised(ret, "ValueError")

\* establishment_FPR has failed on an unknown metric.
C6_Witness ==
    /\ call = "establishment_FPR"
    /\ args.similarity_metric # "cardinality_score"
    /\ ~HasNoEvents(reference) /\ ~HasNoEvents(estimated)
    /\ Raised(ret, "ValueError")

---------------------------------------------------------------------------
(* C7 *)

\* Row r of the elementwise difference of two prototypes, component c.
Offset(P, Q, r, c) == P[r][c] - Q[r][c]

\* Every row of the difference equals every other row within tol.
AllRowsAgree(P, Q, tol) ==
    \A r \in DOMAIN P, q \in DOMAIN P, c \in 1..2 :
        Abs(Offset(P, Q, r, c) - Offset(P, Q, q, c)) < tol

\* Every row of the difference equals the row before it within tol.
NeighbourRowsAgree(P, Q, tol) ==
    \A r \in DOMAIN P, c \in 1..2 :
        r > 1 => Abs(Offset(P, Q, r, c) - Offset(P, Q, r - 1, c)) < tol

\* standard_FPR on one reference and one estimated pattern whose prototypes
\* have equal length: they count as a match (k = 1, all three scores 1) iff
\* the prototypes have length 1 or Agree holds of them; no match gives (0, 0, 0).
MatchIff(Agree(_, _, _)) ==
    ( /\ call = "standard_FPR"
      /\ Len(reference) = 1 /\ Len(estimated) = 1
      /\ Len(reference[1][1]) = Len(estimated[1][1])
      /\ Len(reference[1][1]) >= 1 )
    => LET P == reference[1][1]
           Q == estimated[1][1]
       IN  IF Len(P) = 1 \/ Agree(P, Q, args.tol)
           THEN ret = Triple(One, One, One)
           ELSE ret = Triple(Zero, Zero, Zero)

\* C7 as stated: prototypes of equal length > 1 match exactly when every
\* row of their difference equals every other row within tol (all pairs of
\* rows); prototypes of length 1 always match.
C7_MatchIffAllRowsAgree == MatchIff(AllRowsAgree)

\* C7 as amended: prototypes of equal length > 1 match exactly when every
\* row of their difference equals the row before it within tol (both
\* components, strictly less than tol); prototypes of length 1 always match.
C7_MatchIffNeighbourRowsAgree == MatchIff(NeighbourRowsAgree)

\* A three-event estimate shifted by a non-zero constant offset has matched.
C7_Witness ==
    /\ call = "standard_FPR"
    /\ reference = << << <<<<0, 0>>, <<1, 0>>, <<1, 0>>>> >> >>
    /\ estimated = << << <<<<1, 0>>, <<2, 0>>, <<2, 0>>>> >> >>
    /\ ret = Triple(One, One, One)

---------------------------------------------------------------------------
(* C8 *)

\* No estimated prototype has the length of a reference prototype.
PrototypeLengthsDiffer ==
    \A i \in DOMAIN reference, j \in DOMAIN estimated :
        Len(reference[i][1]) # Len(estimated[j][1])

\* C8: when both collections have events and every estimated prototype
\* differs in length from every reference prototype, standard_FPR returns
\* precision = recall = F = 0.
C8_DifferentLengthsNeverMatch ==
    ( /\ call = "standard_FPR"
      /\ ~HasNoEvents(reference) /\ ~HasNoEvents(estimated)
      /\ PrototypeLengthsDiffer )
    => ret = Triple(Zero, Zero, Zero)

\* standard_FPR has compared a one-event prototype with a two-event one
\* that starts with the same event.
C8_Witness ==
    /\ call = "standard_FPR"
    /\ reference = << << <<EvA>> >> >>
    /\ estimated = << << <<EvA, EvB>> >> >>
    /\ ret = Triple(Zero, Zero, Zero)

---------------------------------------------------------------------------
(* C9 *)

\* Some pattern has no occurrence, or some event has not two components.
Malformed(c) ==
    \/ \E p \in DOMAIN c : Len(c[p]) = 0
    \/ \E p \in DOMAIN c : \E o \in DOMAIN c[p] : \E e \in DOMAIN c[p][o] :
           Len(c[p][o][e]) # 2

\* C9: validate fails with the structural error iff some pattern of either
\* collection has zero occurrences or some event has not exactly two
\* components; otherwise it completes, and a collection with zero total
\* events only produces its warning.
C9_ValidateFailsIffMalformed ==
    (call = "validate") =>
        /\ Raised(ret, "ValueError") <=> (Malformed(reference) \/ Malformed(estimated))
        /\ ret.status \in {"ok", "raise"}
        /\ ("Reference patterns are empty." \in warned) <=> HasNoEvents(reference)
        /\ ("Estimated patterns are empty." \in warned) <=> HasNoEvents(estimated)

\* validate has completed, with a warning, on a reference whose only
\* occurrence is empty.
C9_Witness ==
    /\ call = "validate"
    /\ reference = << << <<>> >> >>
    /\ ~HasNoEvents(estimated)
    /\ ret.status = "ok"
    /\ warned = {"Reference patterns are empty."}

---------------------------------------------------------------------------
(* C10 *)

\* The score matrices of all (reference pattern, estimated pattern) pairs.
ScoreMatrices ==
    Array([i \in DOMAIN reference |-> Array([j \in DOMAIN estimated |->
        compute_score_matrix(reference[i], estimated[j],
                             args.similarity_metric).value])])

\* The aligned pairs (i, j): the maximum of their score matrix reaches thres.
AlignedPairs(sm) ==
    {pr \in (DOMAIN reference) \X (DOMAIN estimated) :
        RLeq(args.thres, MatMax(sm[pr[1]][pr[2]]))}
AlignedRows(al) == {pr[1] : pr \in al}
AlignedCols(al) == {pr[2] : pr \in al}

\* precisionContribution and recallContribution: recorded for aligned
\* pairs, zero elsewhere.
PrecisionContribution(sm, al, i, j) ==
    IF <<i, j>> \in al THEN Mean(ColMax(sm[i][j])) ELSE Zero
RecallContribution(sm, al, i, j) ==
    IF <<i, j>> \in al THEN Mean(RowMax(sm[i][j])) ELSE Zero

\* The largest of a non-empty set of scores.
MaxOfSet(S) == CHOOSE x \in S : \A y \in S : RLeq(y, x)

BestPrecision(sm, al, j) ==
    MaxOfSet({PrecisionContribution(sm, al, i, j) : i \in AlignedRows(al)})
BestRecall(sm, al, i) ==
    MaxOfSet({RecallContribution(sm, al, i, j) : j \in AlignedCols(al)})

\* The elements of a finite set, in some order.
RECURSIVE SetToSeq(_)
SetToSeq(S) ==
    IF S = {} THEN <<>>
    ELSE LET x == CHOOSE y \in S : TRUE IN <<x>> \o SetToSeq(S \ {x})

\* The mean of term(x) over the set S, x counted weight(x) times.
WeightedMean(S, term(_), weight(_)) ==
    LET xs == SetToSeq(S)
        terms == Array([k \in DOMAIN xs |-> RMul(term(xs[k]), <<weight(xs[k]), 1>>)])
        weights == Array([k \in DOMAIN xs |-> <<weight(xs[k]), 1>>])
    IN  RDiv(SumSeq(terms), SumSeq(weights))

\* occurrence_FPR has returned the scores of collections that have events.
OccurrenceScored ==
    /\ call = "occurrence_FPR"
    /\ ret.status = "ok"
    /\ ~HasNoEvents(reference) /\ ~HasNoEvents(estimated)

\* The number of aligned pairs in which estimated index j (reference index
\* i) occurs.
PairsOfCol(al, j) == Cardinality({pr \in al : pr[2] = j})
PairsOfRow(al, i) == Cardinality({pr \in al : pr[1] = i})

\* C10 as stated: when some pair is aligned, precision is the mean over the
\* distinct aligned estimated indices (each counted once) of the best
\* precisionContribution over the aligned reference indices; recall is the
\* symmetric mean over the distinct aligned reference indices.
C10_MeanOverDistinctIndices ==
    OccurrenceScored =>
        LET sm == ScoreMatrices
            al == AlignedPairs(sm)
        IN  al # {} =>
              /\ ret.value[2] = WeightedMean(AlignedCols(al),
                                    LAMBDA j : BestPrecision(sm, al, j), LAMBDA j : 1)
              /\ ret.value[3] = WeightedMean(AlignedRows(al),
                                    LAMBDA i : BestRecall(sm, al, i), LAMBDA i : 1)

\* C10 as amended: when some pair is aligned, precision is the mean, with
\* one term per aligned pair (an estimated index is counted once for every
\* aligned pair it occurs in), of the best precisionContribution over the
\* aligned reference indices; recall is the symmetric mean with one term
\* per aligned pair.
C10_MeanOverAlignedPairs ==
    OccurrenceScored =>
        LET sm == ScoreMatrices
            al == AlignedPairs(sm)
        IN  al # {} =>
              /\ ret.value[2] = WeightedMean(AlignedCols(al),
                                    LAMBDA j : BestPrecision(sm, al, j),
                                    LAMBDA j : PairsOfCol(al, j))
              /\ ret.value[3] = WeightedMean(AlignedRows(al),
                                    LAMBDA i : BestRecall(sm, al, i),
                                    LAMBDA i : PairsOfRow(al, i))

\* occurrence_FPR has scored collections in which one estimated pattern is
\* aligned with two reference patterns and another, of a different best
\* precisionContribution, with one.
C10_Witness ==
    /\ OccurrenceScored
    /\ LET sm == ScoreMatrices
           al == AlignedPairs(sm)
       IN  \E j, k \in AlignedCols(al) :
              /\ PairsOfCol(al, j) = 2
              /\ PairsOfCol(al, k) = 1
              /\ BestPrecision(sm, al, j) # BestPrecision(sm, al, k)

---------------------------------------------------------------------------
(* C11 *)

\* No occurrence of the collection is empty.
NoEmptyOccurrence(c) ==
    \A p \in DOMAIN c : \A o \in DOMAIN c[p] : Len(c[p][o]) > 0

\* Both collections have events and no empty occurrence.
EventsEverywhere ==
    /\ ~HasNoEvents(reference) /\ ~HasNoEvents(estimated)
    /\ NoEmptyOccurrence(reference) /\ NoEmptyOccurrence(estimated)

\* The mean, over the columns, of the largest entry of the column of the
\* matrix M (a function of <<row, column>>), and the same by rows.
MeanOfColumnMaxima(M, rows, cols) ==
    LET js == SetToSeq(cols)
    IN  Mean(Array([k \in DOMAIN js |-> MaxOfSet({M[<<i, js[k]>>] : i \in rows})]))
MeanOfRowMaxima(M, rows, cols) ==
    LET is == SetToSeq(rows)
    IN  Mean(Array([k \in DOMAIN is |-> MaxOfSet({M[<<is[k], j>>] : j \in cols})]))

\* Layer 1: F1[a, b] of a reference and an estimated pattern.
LayerOne(ref_pattern, est_pattern) ==
    Array([ab \in (DOMAIN ref_pattern) \X (DOMAIN est_pattern) |->
        LET common == Cardinality(EventSet(ref_pattern[ab[1]])
                                  \cap EventSet(est_pattern[ab[2]]))
        IN  f_measure(Rat(common, Len(ref_pattern[ab[1]])),
                      Rat(common, Len(est_pattern[ab[2]])))])

\* Layer 2: F2[i, j] of the two collections.
LayerTwo ==
    Array([ij \in (DOMAIN reference) \X (DOMAIN estimated) |->
        LET F1 == LayerOne(reference[ij[1]], estimated[ij[2]])
            rows == DOMAIN reference[ij[1]]
            cols == DOMAIN estimated[ij[2]]
        IN  f_measure(MeanOfColumnMaxima(F1, rows, cols),
                      MeanOfRowMaxima(F1, rows, cols))])

\* C11: on collections with events and no empty occurrence,
\* three_layer_FPR returns (F, P, R) with P the mean of the column maxima
\* of F2, R the mean of the row maxima of F2 and F = fmeasure(P, R), where
\* F2[i, j] = fmeasure(mean of column maxima of F1, mean of row maxima of
\* F1) and F1[a, b] = fmeasure(|intersect| / |ref_occ|, |intersect| /
\* |est_occ|).
C11_ThreeLayerIsNestedBestMatch ==
    (call = "three_layer_FPR" /\ EventsEverywhere) =>
        LET F2 == LayerTwo
            P == MeanOfColumnMaxima(F2, DOMAIN reference, DOMAIN estimated)
            R == MeanOfRowMaxima(F2, DOMAIN reference, DOMAIN estimated)
        IN  ret = Triple(f_measure(P, R), P, R)

\* three_layer_FPR has scored collections whose precision and recall
\* differ, with a pattern pair whose layer-2 score is neither 0 nor 1 and
\* a reference pattern of more than one occurrence.
C11_Witness ==
    /\ call = "three_layer_FPR" /\ EventsEverywhere
    /\ IsTriple(ret)
    /\ ret.value[2] # ret.value[3]
    /\ \E ij \in (DOMAIN reference) \X (DOMAIN estimated) :
           /\ LayerTwo[ij] \notin {Zero, One}
           /\ Len(reference[ij[1]]) > 1

---------------------------------------------------------------------------
(* C12 *)

\* C12: the F-measure, precision and recall that standard_FPR returns for
\* structurally valid collections all lie in [0, 1].
C12_StandardScoresInUnitInterval ==
    (call = "standard_FPR" /\ WellFormed(reference) /\ WellFormed(estimated)
        /\ IsTriple(ret)) =>
        \A c \in 1..3 : InUnitInterval(ret.value[c])

---------------------------------------------------------------------------
(* C13 *)

\* The four metrics that return a score triple.
TripleMetrics ==
    {"standard_FPR", "establishment_FPR", "occurrence_FPR", "three_layer_FPR"}

\* C13: on collections that pass validate and both have events (an
\* occurrence may be empty), standard_FPR, establishment_FPR,
\* occurrence_FPR (with the known similarity metric) and three_layer_FPR
\* return a score triple and raise nothing.
C13_MetricsNeverFailOnValidInput ==
    (/\ call \in TripleMetrics
     /\ WellFormed(reference) /\ WellFormed(estimated)
     /\ ~HasNoEvents(reference) /\ ~HasNoEvents(estimated)
     /\ ("similarity_metric" \in DOMAIN args =>
            args.similarity_metric = DefaultMetric)) =>
        IsTriple(ret)

---------------------------------------------------------------------------
(* C14 *)

\* The triple (F, R, P) of a returned triple (F, P, R).
Swapped(r) == Triple(r.value[1], r.value[3], r.value[2])

\* C14: on collections with events and no empty occurrence, when
\* establishment_FPR(A, B) returns (F, P, R), establishment_FPR(B, A)
\* returns (F, R, P); and likewise for three_layer_FPR.
C14_SwapExchangesPrecisionAndRecall ==
    /\ (call = "establishment_FPR" /\ EventsEverywhere /\ IsTriple(ret)) =>
           establishment_FPR(estimated, reference, args.similarity_metric)
               = Swapped(ret)
    /\ (call = "three_layer_FPR" /\ EventsEverywhere /\ IsTriple(ret)) =>
           three_layer_FPR(estimated, reference) = Swapped(ret)

\* establishment_FPR has scored collections with events and no empty
\* occurrence, of different sizes, whose precision and recall differ.
C14_Witness ==
    /\ call = "establishment_FPR" /\ EventsEverywhere /\ IsTriple(ret)
    /\ Len(reference) # Len(estimated)
    /\ ret.value[2] # ret.value[3]

=============================================================================
